---- MODULE Spec2Model ----
(***************************************************************************)
(* Model of src/profit_app.py: the per-session profit calculator of the    *)
(* Streamlit page (process_detailed_calc and the three summary figures),   *)
(* driven by the editable table and the two global rate inputs.            *)
(*                                                                         *)
(* Numbers are IEEE-style values over exact rationals: a finite value is a *)
(* normalised fraction n/d, and the two special outcomes the arithmetic of *)
(* the program can produce, NaN and +/-infinity, are values of their own.  *)
(* Rounding of binary floating point is not modelled.                      *)
(*                                                                         *)
(* Column names of the source and the ASCII names used here:               *)
(*   場次名稱 session_name          預估營業額 estimated_revenue            *)
(*   商品毛利率 gross_margin_rate   場地租金 venue_rent                     *)
(*   現場人事 onsite_staffing       水電物流 utilities_logistics            *)
(*   該場廣告費 advertising_cost    場地抽成率 venue_commission_rate        *)
(*   毛利總額 gross_profit          變動成本 variable_cost                  *)
(*   固定開銷合計 fixed_cost_total  預估淨利 net_profit                     *)
(*   打平所需營收 breakeven_revenue 投報率 ROI (%) roi_percent              *)
(***************************************************************************)
EXTENDS Integers, Sequences, FiniteSets, TLC

VARIABLES
    editor,           \* the table held by the st.data_editor widget
    global_tax_rate,  \* number_input("發票稅率 (%)") / 100
    global_pkg_rate,  \* number_input("平均耗材率 (%)") / 100
    edited_df,        \* the DataFrame object the run passed to the calculator
    result_df,        \* the DataFrame the calculator returned
    total_rev,        \* result_df["預估營業額"].sum()
    total_net,        \* result_df["預估淨利"].sum()
    avg_roi,          \* result_df["投報率 ROI (%)"].mean()
    edits             \* number of user interactions so far

vars ==
    <<editor, global_tax_rate, global_pkg_rate, edited_df, result_df,
      total_rev, total_net, avg_roi, edits>>

\* Bounds of the exploration.
MaxRows ==
    3

MaxEdits ==
    3

-----------------------------------------------------------------------------
(* Values: cells of the table and floating point numbers.                  *)

Abs(x) ==
    IF x < 0 THEN -x ELSE x

RECURSIVE GCD(_, _)
GCD(a, b) ==
    IF b = 0 THEN a ELSE GCD(b, a % b)

\* The finite number n/d (d > 0), in lowest terms.
Num(n, d) ==
    LET g == GCD(Abs(n), d)
    IN  [t |-> "num", n |-> n \div g, d |-> d \div g, s |-> <<>>]

Int2F(n) ==
    [t |-> "num", n |-> n, d |-> 1, s |-> <<>>]

\* A missing cell (None) and the float NaN are the same marker in pandas.
NaN ==
    [t |-> "nan", n |-> 0, d |-> 1, s |-> <<>>]

\* +infinity (sgn = 1) and -infinity (sgn = -1).
Inf(sgn) ==
    [t |-> "inf", n |-> sgn, d |-> 1, s |-> <<>>]

\* A cell holding text, as a sequence of characters.
Text(chars) ==
    [t |-> "str", n |-> 0, d |-> 1, s |-> chars]

Zero ==
    Int2F(0)

IsNum(x) ==
    x.t = "num"

IsNaN(x) ==
    x.t = "nan"

IsInf(x) ==
    x.t = "inf"

Sign(k) ==
    IF k > 0 THEN 1 ELSE IF k < 0 THEN -1 ELSE 0

FNeg(x) ==
    IF IsNum(x) THEN [x EXCEPT !.n = -x.n]
    ELSE IF IsInf(x) THEN Inf(-x.n)
    ELSE NaN

FAdd(x, y) ==
    IF IsNaN(x) \/ IsNaN(y) THEN NaN
    ELSE IF IsInf(x) /\ IsInf(y) THEN (IF x.n = y.n THEN x ELSE NaN)
    ELSE IF IsInf(x) THEN x
    ELSE IF IsInf(y) THEN y
    ELSE LET g == GCD(x.d, y.d)
         IN  Num(x.n * (y.d \div g) + y.n * (x.d \div g), (x.d \div g) * y.d)

FSub(x, y) ==
    FAdd(x, FNeg(y))

\* The product of two finite fractions, reduced crosswise first.
MulFrac(xn, xd, yn, yd) ==
    LET g1 == GCD(Abs(xn), yd)
        g2 == GCD(Abs(yn), xd)
    IN  Num((xn \div g1) * (yn \div g2), (xd \div g2) * (yd \div g1))

FMul(x, y) ==
    IF IsNaN(x) \/ IsNaN(y) THEN NaN
    ELSE IF IsInf(x) \/ IsInf(y)
         THEN (IF Sign(x.n) * Sign(y.n) = 0 THEN NaN ELSE Inf(Sign(x.n) * Sign(y.n)))
    ELSE MulFrac(x.n, x.d, y.n, y.d)

\* Division of floats never raises: x/0 is +/-inf, 0/0 is NaN.
FDiv(x, y) ==
    IF IsNaN(x) \/ IsNaN(y) THEN NaN
    ELSE IF IsInf(x) /\ IsInf(y) THEN NaN
    ELSE IF IsInf(x) THEN Inf(IF y.n < 0 THEN -x.n ELSE x.n)
    ELSE IF IsInf(y) THEN Zero
    ELSE IF y.n = 0 THEN (IF x.n = 0 THEN NaN ELSE Inf(Sign(x.n)))
    ELSE MulFrac(x.n, x.d, y.d * Sign(y.n), Abs(y.n))

\* x > 0; a comparison with NaN is false.
FGtZero(x) ==
    (IsNum(x) \/ IsInf(x)) /\ x.n > 0

\* x >= y for finite x and y.
FGe(x, y) ==
    x.n * y.d >= y.n * x.d

IsFinite(x) ==
    IsNum(x)

-----------------------------------------------------------------------------
(* Columns.                                                                *)

session_name ==
    "session_name"

numeric_cols ==
    <<"estimated_revenue", "gross_margin_rate", "venue_rent", "onsite_staffing",
      "utilities_logistics", "advertising_cost", "venue_commission_rate">>

InputCols ==
    {session_name} \cup {numeric_cols[k] : k \in 1..Len(numeric_cols)}

derived_cols ==
    {"gross_profit", "variable_cost", "fixed_cost_total", "net_profit",
     "breakeven_revenue", "roi_percent"}

\* The index of column c in numeric_cols.
ColIndex(c) ==
    CHOOSE k \in 1..Len(numeric_cols) : numeric_cols[k] = c

\* A row of the editor: a name cell and the seven numeric cells, in the
\* order of numeric_cols.
MakeRow(name, cells) ==
    [c \in InputCols |-> IF c = session_name THEN name ELSE cells[ColIndex(c)]]

\* df[c]: one column of a table, as a Series.
Col(tbl, c) ==
    [i \in 1..Len(tbl) |-> tbl[i][c]]

\* row[c] = v on one row.
Put(row, c, v) ==
    [k \in (DOMAIN row) \cup {c} |-> IF k = c THEN v ELSE row[k]]

\* df[c] = series: sets (or adds) one column of a table.
Assign(tbl, c, series) ==
    [i \in 1..Len(tbl) |-> Put(tbl[i], c, series[i])]

-----------------------------------------------------------------------------
(* pandas operations used by the calculator.                               *)

DigitChars ==
    <<"0", "1", "2", "3", "4", "5", "6", "7", "8", "9">>

IsDigit(ch) ==
    \E k \in 1..Len(DigitChars) : DigitChars[k] = ch

DigitValue(ch) ==
    (CHOOSE k \in 1..Len(DigitChars) : DigitChars[k] = ch) - 1

\* The value of a string of decimal digits.
RECURSIVE ParseDigits(_)
ParseDigits(chars) ==
    IF chars = <<>> THEN 0
    ELSE 10 * ParseDigits(SubSeq(chars, 1, Len(chars) - 1)) + DigitValue(chars[Len(chars)])

\* pd.to_numeric(cell, errors='coerce') on one cell: a number stays, text
\* that reads as a number is parsed, anything else becomes NaN.
ToNumericCell(x) ==
    IF x.t = "str"
    THEN (IF x.s # <<>> /\ \A k \in 1..Len(x.s) : IsDigit(x.s[k])
          THEN Int2F(ParseDigits(x.s))
          ELSE NaN)
    ELSE x

to_numeric(series) ==
    [i \in 1..Len(series) |-> ToNumericCell(series[i])]

\* Series.fillna(v): only NaN is replaced.
fillna(series, v) ==
    [i \in 1..Len(series) |-> IF IsNaN(series[i]) THEN v ELSE series[i]]

SeriesAdd(a, b) ==
    [i \in 1..Len(a) |-> FAdd(a[i], b[i])]

SeriesSub(a, b) ==
    [i \in 1..Len(a) |-> FSub(a[i], b[i])]

SeriesMul(a, b) ==
    [i \in 1..Len(a) |-> FMul(a[i], b[i])]

SeriesDiv(a, b) ==
    [i \in 1..Len(a) |-> FDiv(a[i], b[i])]

\* scalar + series and series * scalar (broadcast).
ScalarAdd(x, a) ==
    [i \in 1..Len(a) |-> FAdd(x, a[i])]

ScalarMul(a, x) ==
    [i \in 1..Len(a) |-> FMul(a[i], x)]

\* The non-NaN values of a series, in order (skipna=True).
RECURSIVE DropNa(_)
DropNa(series) ==
    IF Len(series) = 0 THEN <<>>
    ELSE LET rest == DropNa(SubSeq(series, 1, Len(series) - 1))
             last == series[Len(series)]
         IN  IF IsNaN(last) THEN rest ELSE Append(rest, last)

RECURSIVE FoldAdd(_)
FoldAdd(values) ==
    IF Len(values) = 0 THEN Zero
    ELSE FAdd(FoldAdd(SubSeq(values, 1, Len(values) - 1)), values[Len(values)])

\* Series.sum(): NaN is skipped, the sum of nothing is 0.
SeriesSum(series) ==
    FoldAdd(DropNa(series))

\* A variant of Series.mean() that treats 0 like a missing value.
SeriesMean_SkipZeros(series) ==
    LET values == SelectSeq(DropNa(series), LAMBDA v : v # Zero)
    IN  IF Len(values) = 0 THEN NaN
        ELSE FDiv(FoldAdd(values), Int2F(Len(values)))

\* Series.mean(): NaN is skipped, the mean of nothing is NaN.
SeriesMean(series) ==
    LET values == DropNa(series)
    IN  IF Len(values) = 0 THEN NaN
        ELSE FDiv(FoldAdd(values), Int2F(Len(values)))

-----------------------------------------------------------------------------
(* process_detailed_calc.  The two table objects of a call live in a heap  *)
(* with the slots df (the argument) and calc_df (the working copy); every  *)
(* column assignment of the function writes through the reference that     *)
(* df.copy() returned.                                                     *)

\* A variant without the copy: calc_df is the argument object itself.
DfCopy_Alias(heap, ref) ==
    [obj |-> ref, heap |-> heap]

\* calc_df = df.copy(): a new object with the same cells.
DfCopy(heap, ref) ==
    [obj |-> "calc_df", heap |-> [heap EXCEPT !["calc_df"] = heap[ref]]]

\* A variant of the coercion without .fillna(0).
CoerceColumn_NoFill(tbl, c) ==
    Assign(tbl, c, to_numeric(Col(tbl, c)))

\* calc_df[col] = pd.to_numeric(calc_df[col], errors='coerce').fillna(0)
CoerceColumn(tbl, c) ==
    Assign(tbl, c, fillna(to_numeric(Col(tbl, c)), Zero))

\* for col in numeric_cols, from the k-th column on.  (CHOOSE over a
\* singleton names the intermediate table, so that it is computed once.)
RECURSIVE CoerceFrom(_, _)
CoerceFrom(tbl, k) ==
    IF k > Len(numeric_cols) THEN tbl
    ELSE CHOOSE done \in {CoerceFrom(t1, k + 1) :
                             t1 \in {CoerceColumn(tbl, numeric_cols[k])}} : TRUE

\* A. calc_df["預估營業額"] * calc_df["商品毛利率"]
GrossProfit(tbl) ==
    SeriesMul(Col(tbl, "estimated_revenue"), Col(tbl, "gross_margin_rate"))

\* B. calc_df["預估營業額"] * (global_tax_rate + global_pkg_rate + calc_df["場地抽成率"])
VariableCost(tbl, tax, pkg) ==
    SeriesMul(Col(tbl, "estimated_revenue"),
              ScalarAdd(FAdd(tax, pkg), Col(tbl, "venue_commission_rate")))

\* C. 場地租金 + 現場人事 + 水電物流 + 該場廣告費
FixedCostTotal(tbl) ==
    SeriesAdd(SeriesAdd(SeriesAdd(Col(tbl, "venue_rent"), Col(tbl, "onsite_staffing")),
                        Col(tbl, "utilities_logistics")),
              Col(tbl, "advertising_cost"))

\* A variant of D that leaves the fixed costs out.
NetProfit_NoFixed(tbl) ==
    SeriesSub(Col(tbl, "gross_profit"), Col(tbl, "variable_cost"))

\* D. calc_df["毛利總額"] - calc_df["變動成本"] - calc_df["固定開銷合計"]
NetProfit(tbl) ==
    SeriesSub(SeriesSub(Col(tbl, "gross_profit"), Col(tbl, "variable_cost")),
              Col(tbl, "fixed_cost_total"))

\* A variant of E that divides whenever the denominator is not 0.
get_be_rev_NonZeroDenom(row, tax, pkg) ==
    LET denom == FSub(row["gross_margin_rate"],
                      FAdd(FAdd(tax, pkg), row["venue_commission_rate"]))
    IN  IF denom # Zero THEN FDiv(row["fixed_cost_total"], denom) ELSE Zero

\* A variant of E that leaves the venue commission out of the denominator.
get_be_rev_NoCommission(row, tax, pkg) ==
    LET denom == FSub(row["gross_margin_rate"], FAdd(tax, pkg))
    IN  IF FGtZero(denom) THEN FDiv(row["fixed_cost_total"], denom) ELSE Zero

\* A variant of E that divides by the gross margin rate alone.
get_be_rev_GrossOnly(row, tax, pkg) ==
    LET denom == FSub(row["gross_margin_rate"],
                      FAdd(FAdd(tax, pkg), row["venue_commission_rate"]))
    IN  IF FGtZero(denom) THEN FDiv(row["fixed_cost_total"], row["gross_margin_rate"])
        ELSE Zero

\* E. the break-even revenue of one row.
get_be_rev(row, tax, pkg) ==
    LET denom == FSub(row["gross_margin_rate"],
                      FAdd(FAdd(tax, pkg), row["venue_commission_rate"]))
    IN  IF FGtZero(denom) THEN FDiv(row["fixed_cost_total"], denom) ELSE Zero

\* calc_df.apply(get_be_rev, axis=1)
ApplyBeRev(tbl, tax, pkg) ==
    [i \in 1..Len(tbl) |-> get_be_rev(tbl[i], tax, pkg)]

\* F. (營收 - 毛利) + 變動成本 + 固定開銷
TotalCost(tbl) ==
    SeriesAdd(SeriesAdd(SeriesSub(Col(tbl, "estimated_revenue"), Col(tbl, "gross_profit")),
                        Col(tbl, "variable_cost")),
              Col(tbl, "fixed_cost_total"))

\* (calc_df["預估淨利"] / total_cost * 100).fillna(0)
RoiPercent(tbl) ==
    fillna(ScalarMul(SeriesDiv(Col(tbl, "net_profit"), TotalCost(tbl)), Int2F(100)), Zero)

\* The statements of the function after the copy, in order.
CalcSteps ==
    7

CalcStep(k, tbl, tax, pkg) ==
    CASE k = 1 -> CoerceFrom(tbl, 1)
      [] k = 2 -> Assign(tbl, "gross_profit", GrossProfit(tbl))
      [] k = 3 -> Assign(tbl, "variable_cost", VariableCost(tbl, tax, pkg))
      [] k = 4 -> Assign(tbl, "fixed_cost_total", FixedCostTotal(tbl))
      [] k = 5 -> Assign(tbl, "net_profit", NetProfit(tbl))
      [] k = 6 -> Assign(tbl, "breakeven_revenue", ApplyBeRev(tbl, tax, pkg))
      [] k = 7 -> Assign(tbl, "roi_percent", RoiPercent(tbl))

\* The heap after statements k.. of the function, all writing to heap[r].
RECURSIVE CalcFrom(_, _, _, _, _)
CalcFrom(heap, r, k, tax, pkg) ==
    IF k > CalcSteps THEN heap
    ELSE CHOOSE done \in {CalcFrom(h1, r, k + 1, tax, pkg) :
                             h1 \in {[heap EXCEPT ![r] = CalcStep(k, heap[r], tax, pkg)]}} : TRUE

\* The whole function: the argument object as it is after the call (df) and
\* the table the call returns (calc_df).
process_detailed_calc(df, tax, pkg) ==
    CHOOSE out \in
        {[df |-> h["df"], calc_df |-> h[c.obj]] :
            <<c, h>> \in {<<c0, CalcFrom(c0.heap, c0.obj, 1, tax, pkg)>> :
                            c0 \in {DfCopy([df |-> df, calc_df |-> <<>>], "df")}}} : TRUE

-----------------------------------------------------------------------------
(* One run of the script: Streamlit runs it from top to bottom on start    *)
(* and again after every interaction with a widget.                        *)

Run(tbl, tax, pkg) ==
    LET out == process_detailed_calc(tbl, tax, pkg)
    IN  [edited_df |-> out.df,
         result_df |-> out.calc_df,
         total_rev |-> SeriesSum(Col(out.calc_df, "estimated_revenue")),
         total_net |-> SeriesSum(Col(out.calc_df, "net_profit")),
         avg_roi   |-> SeriesMean(Col(out.calc_df, "roi_percent"))]

\* st.session_state.df_special: the two sessions the page starts with.
df_special ==
    <<MakeRow(Text(<<"A">>),
              <<Int2F(600000), Num(35, 100), Int2F(120000), Int2F(45000),
                Int2F(5000), Int2F(20000), Num(5, 100)>>),
      MakeRow(Text(<<"B">>),
              <<Int2F(400000), Num(40, 100), Int2F(60000), Int2F(30000),
                Int2F(3000), Int2F(10000), Int2F(0)>>)>>

\* value=5.0 and value=0.0 of the two number inputs, in percent.
DefaultTaxPercent ==
    5

DefaultPkgPercent ==
    0

\* The percentages a user sets in the two number inputs.
TaxInputs ==
    {0}

PkgInputs ==
    {5}

\* What a user types into a cell of each numeric column: a number, text
\* that reads as a number, text that does not, a blank, or nothing (None).
CellInputs(c) ==
    CASE c = "estimated_revenue"     -> {Int2F(100000)}
      [] c = "gross_margin_rate"     -> {Num(21, 20)}
      [] c = "venue_rent"            -> {Text(<<"9", "5", "0", "0", "0">>)}
      [] c = "onsite_staffing"       -> {Text(<<>>)}
      [] c = "utilities_logistics"   -> {NaN}
      [] c = "advertising_cost"      -> {Int2F(0)}
      [] c = "venue_commission_rate" -> {Text(<<"x">>)}

\* The row the editor appends on "+": every cell empty.
BlankRow ==
    MakeRow(NaN, [k \in 1..Len(numeric_cols) |-> NaN])

Init ==
    /\ editor = df_special
    /\ global_tax_rate = FDiv(Int2F(DefaultTaxPercent), Int2F(100))
    /\ global_pkg_rate = FDiv(Int2F(DefaultPkgPercent), Int2F(100))
    /\ edits = 0
    /\ \E out \in {Run(editor, global_tax_rate, global_pkg_rate)} :
          /\ edited_df = out.edited_df
          /\ result_df = out.result_df
          /\ total_rev = out.total_rev
          /\ total_net = out.total_net
          /\ avg_roi = out.avg_roi

Rerun(tbl, tax, pkg) ==
    /\ editor' = tbl
    /\ global_tax_rate' = tax
    /\ global_pkg_rate' = pkg
    /\ \E out \in {Run(tbl, tax, pkg)} :
          /\ edited_df' = out.edited_df
          /\ result_df' = out.result_df
          /\ total_rev' = out.total_rev
          /\ total_net' = out.total_net
          /\ avg_roi' = out.avg_roi

\* The user changes one cell of the table.
EditCell(i, c, v) ==
    /\ edits < MaxEdits
    /\ i \in 1..Len(editor)
    /\ edits' = edits + 1
    /\ Rerun([editor EXCEPT ![i][c] = v], global_tax_rate, global_pkg_rate)

\* The user adds an empty row at the bottom (num_rows="dynamic").
AddRow ==
    /\ edits < MaxEdits
    /\ Len(editor) < MaxRows
    /\ edits' = edits + 1
    /\ Rerun(Append(editor, BlankRow), global_tax_rate, global_pkg_rate)

\* The user deletes a row.
DeleteRow(i) ==
    /\ edits < MaxEdits
    /\ i \in 1..Len(editor)
    /\ edits' = edits + 1
    /\ Rerun(SubSeq(editor, 1, i - 1) \o SubSeq(editor, i + 1, Len(editor)),
             global_tax_rate, global_pkg_rate)

\* The user changes the tax rate input.
SetTaxRate(p) ==
    /\ edits < MaxEdits
    /\ edits' = edits + 1
    /\ Rerun(editor, FDiv(Int2F(p), Int2F(100)), global_pkg_rate)

\* The user changes the packaging rate input.
SetPkgRate(p) ==
    /\ edits < MaxEdits
    /\ edits' = edits + 1
    /\ Rerun(editor, global_tax_rate, FDiv(Int2F(p), Int2F(100)))

\* Any other interaction (a sort, the download button): the script runs
\* again on the same widget values.
Refresh ==
    /\ UNCHANGED edits
    /\ Rerun(editor, global_tax_rate, global_pkg_rate)

Next ==
    \/ \E i \in 1..MaxRows, k \in 1..Len(numeric_cols) :
          \E v \in CellInputs(numeric_cols[k]) : EditCell(i, numeric_cols[k], v)
    \/ AddRow
    \/ \E i \in 1..MaxRows : DeleteRow(i)
    \/ \E p \in TaxInputs : SetTaxRate(p)
    \/ \E p \in PkgInputs : SetPkgRate(p)
    \/ Refresh

Spec ==
    Init /\ [][Next]_vars

-----------------------------------------------------------------------------
(* Properties.  The rows of result_df carry the coerced inputs next to the *)
(* derived columns; the rates are those of the run that produced them.     *)

Rows ==
    1..Len(result_df)

\* tax_rate + packaging_rate + commission_rate of a computed row.
VarRateOf(r) ==
    FAdd(FAdd(global_tax_rate, global_pkg_rate), r["venue_commission_rate"])

\* margin_rate - (tax_rate + packaging_rate + commission_rate).
DenomOf(r) ==
    FSub(r["gross_margin_rate"], VarRateOf(r))

\* rent + staffing + utilities + advertising of a computed row.
FixedOf(r) ==
    FAdd(FAdd(FAdd(r["venue_rent"], r["onsite_staffing"]), r["utilities_logistics"]),
         r["advertising_cost"])

\* (revenue - gross_profit) + variable_cost + fixed_cost_total.
TotalCostOf(r) ==
    FAdd(FAdd(FSub(r["estimated_revenue"], r["gross_profit"]), r["variable_cost"]),
         r["fixed_cost_total"])

\* A cell that does not read as a number: missing, blank or non-numeric text.
Unparseable(cell) ==
    \/ cell.t = "nan"
    \/ /\ cell.t = "str"
       /\ \/ cell.s = <<>>
          \/ \E k \in 1..Len(cell.s) : ~IsDigit(cell.s[k])

\* C1: every computed row has net_profit = revenue*margin_rate -
\* revenue*(tax_rate + packaging_rate + commission_rate) - (rent + staffing +
\* utilities + advertising) over its coerced values, one computed row per
\* row of the table; on the two default sessions with tax 5% and packaging
\* 0% the first session's net_profit is -40000.
C1_NetProfitFormula ==
    /\ Len(result_df) = Len(editor)
    /\ \A i \in Rows :
          LET r == result_df[i]
          IN  r["net_profit"] =
                  FSub(FSub(FMul(r["estimated_revenue"], r["gross_margin_rate"]),
                            FMul(r["estimated_revenue"], VarRateOf(r))),
                       FixedOf(r))
    /\ (editor = df_special /\ global_tax_rate = Num(5, 100) /\ global_pkg_rate = Zero)
          => result_df[1]["net_profit"] = Int2F(-40000)

\* A session whose revenue was edited to 100000, with a venue commission
\* and fixed costs, and a net profit that is neither 0 nor -fixed_cost_total.
C1_Witness ==
    \E i \in Rows :
        /\ editor[i]["estimated_revenue"] = Int2F(100000)
        /\ result_df[i]["venue_commission_rate"].n > 0
        /\ FixedOf(result_df[i]).n > 0
        /\ result_df[i]["net_profit"] \notin {Zero, FNeg(FixedOf(result_df[i]))}

\* C2: with denom = margin_rate - (tax_rate + packaging_rate +
\* commission_rate), a row with denom > 0 has breakeven_revenue * denom =
\* fixed_cost_total, and a row with denom <= 0 has breakeven_revenue = 0.
C2_BreakevenFormula ==
    \A i \in Rows :
        LET r == result_df[i]
            denom == DenomOf(r)
        IN  IF denom.n > 0
            THEN /\ IsNum(r["breakeven_revenue"])
                 /\ FMul(r["breakeven_revenue"], denom) = FixedOf(r)
            ELSE r["breakeven_revenue"] = Zero

\* One session with a positive denominator and a positive break-even
\* revenue next to one with positive fixed costs and a negative denominator.
C2_Witness ==
    \E i, j \in Rows :
        /\ DenomOf(result_df[i]).n > 0
        /\ result_df[i]["breakeven_revenue"].n > 0
        /\ DenomOf(result_df[j]).n < 0
        /\ FixedOf(result_df[j]).n > 0

\* C3: with total_cost = (revenue - gross_profit) + variable_cost +
\* fixed_cost_total, a row with total_cost = 0 has roi_percent = 0 and any
\* other row has roi_percent = net_profit / total_cost * 100.
C3_RoiFormula ==
    \A i \in Rows :
        LET r == result_df[i]
            total_cost == TotalCostOf(r)
        IN  IF total_cost = Zero
            THEN r["roi_percent"] = Zero
            ELSE r["roi_percent"] = FMul(FDiv(r["net_profit"], total_cost), Int2F(100))

\* C4: every derived field of every row and each of the three summary
\* values is a finite number, never NaN and never infinite.
C4_AllOutputsFinite ==
    /\ \A i \in Rows : \A c \in derived_cols : IsFinite(result_df[i][c])
    /\ IsFinite(total_rev)
    /\ IsFinite(total_net)
    /\ IsFinite(avg_roi)

\* C5: with no session in the table the summary is total_revenue = 0,
\* total_net_profit = 0 and average_roi = 0.
C5_EmptySummaryIsZero ==
    Len(editor) = 0 =>
        /\ total_rev = Zero
        /\ total_net = Zero
        /\ avg_roi = Zero

\* The summary and the computed table as one value.
Outputs ==
    [edited_df |-> edited_df, result_df |-> result_df, total_rev |-> total_rev,
     total_net |-> total_net, avg_roi |-> avg_roi]

\* C6: a cell of a numeric column that does not read as a number counts as
\* exactly 0: the computed row holds 0 in that column and the whole output
\* (every row's derived values and the three summary values) is what the
\* calculator yields with 0 in that cell; a row whose estimated_revenue is
\* such a cell has gross_profit = 0, variable_cost = 0 and net_profit =
\* -fixed_cost_total.
C6_UnparseableIsZero ==
    \A i \in 1..Len(editor) : \A k \in 1..Len(numeric_cols) :
        LET c == numeric_cols[k]
        IN  Unparseable(editor[i][c]) =>
                /\ result_df[i][c] = Zero
                /\ \A zeroed \in {Run([editor EXCEPT ![i][c] = Zero],
                                       global_tax_rate, global_pkg_rate)} :
                       /\ zeroed.result_df = result_df
                       /\ zeroed.total_rev = total_rev
                       /\ zeroed.total_net = total_net
                       /\ zeroed.avg_roi = avg_roi
                /\ c = "estimated_revenue" =>
                      /\ result_df[i]["gross_profit"] = Zero
                      /\ result_df[i]["variable_cost"] = Zero
                      /\ result_df[i]["net_profit"] = FNeg(FixedOf(result_df[i]))

\* A session with an empty revenue cell and positive fixed costs, next to
\* a session with a revenue and non-numeric text as its commission rate.
C6_Witness ==
    \E i, j \in Rows :
        /\ editor[i]["estimated_revenue"] = NaN
        /\ FixedOf(result_df[i]).n > 0
        /\ result_df[j]["estimated_revenue"].n > 0
        /\ editor[j]["venue_commission_rate"] = Text(<<"x">>)

\* The sum of column c over the first i computed rows, every row counted.
RECURSIVE SumUpTo(_, _)
SumUpTo(c, i) ==
    IF i = 0 THEN Zero ELSE FAdd(SumUpTo(c, i - 1), result_df[i][c])

\* C7: total_rev is the sum of the coerced estimated_revenue of all rows,
\* total_net the sum of net_profit of all rows, and for a non-empty table
\* avg_roi times the number of rows is the sum of roi_percent of all rows.
C7_Aggregates ==
    /\ total_rev = SumUpTo("estimated_revenue", Len(result_df))
    /\ total_net = SumUpTo("net_profit", Len(result_df))
    /\ Len(result_df) > 0 =>
          FMul(avg_roi, Int2F(Len(result_df))) = SumUpTo("roi_percent", Len(result_df))

\* Three sessions, one of them with total cost 0 and an ROI defaulted to 0,
\* one with a positive and one with a negative ROI.
C7_Witness ==
    /\ Len(result_df) = 3
    /\ \E i, j, k \in Rows :
          /\ TotalCostOf(result_df[i]) = Zero
          /\ result_df[i]["roi_percent"] = Zero
          /\ result_df[j]["roi_percent"].n > 0
          /\ result_df[k]["roi_percent"].n < 0

\* net_profit of row i as the calculator computes it with the revenue cell
\* of that row replaced by rev, everything else held constant.
NetProfitAt(i, rev) ==
    process_detailed_calc(<<[edited_df[i] EXCEPT !["estimated_revenue"] = rev]>>,
                          global_tax_rate, global_pkg_rate).calc_df[1]["net_profit"]

\* C8: for every row with margin_rate - (tax_rate + packaging_rate +
\* commission_rate) > 0, the calculator run again with estimated_revenue
\* replaced by the row's breakeven_revenue yields net_profit = 0.
C8_BreakevenRoundTrip ==
    \A i \in Rows :
        DenomOf(result_df[i]).n > 0 =>
            NetProfitAt(i, result_df[i]["breakeven_revenue"]) = Zero

\* A session with a positive denominator, a venue commission and a
\* break-even revenue that is not its revenue.
C8_Witness ==
    \E i \in Rows :
        /\ DenomOf(result_df[i]).n > 0
        /\ result_df[i]["venue_commission_rate"].n > 0
        /\ result_df[i]["breakeven_revenue"].n > 0
        /\ result_df[i]["breakeven_revenue"] # result_df[i]["estimated_revenue"]

\* C9: the calculator leaves the table it is given as it was: after a run
\* edited_df equals the table of the editor cell by cell, rows and order
\* included, and running the calculator again on it yields the same output.
C9_InputUnchanged ==
    /\ edited_df = editor
    /\ Run(edited_df, global_tax_rate, global_pkg_rate) = Outputs

\* A run whose input holds text in a numeric cell that the output shows as 0.
C9_Witness ==
    \E i \in Rows : \E k \in 1..Len(numeric_cols) :
        /\ editor[i][numeric_cols[k]].t = "str"
        /\ result_df[i][numeric_cols[k]] = Zero

\* Revenues to try around the break-even revenue be of a row: 0, be itself,
\* one below and one above it, and the row's revenue.
Probes(be, rev) ==
    {x \in {Zero, be, FSub(be, Int2F(1)), FAdd(be, Int2F(1)), rev} : x.n >= 0}

====
